---------------------------- MODULE Spec2Model ----------------------------
(***************************************************************************)
(* Fund-analysis document pipeline: TableParser (table_parser.py),          *)
(* DocumentProcessor.process_document (document_processor.py) and the       *)
(* Celery task process_document_task (celery_worker.py).                    *)
(*                                                                          *)
(* A Python str is a sequence of one-character strings, so that lower(),    *)
(* strip(), replace() and the `in` substring test are computed.  None and   *)
(* the int column labels of a camelot DataFrame are the non-str cells.      *)
(***************************************************************************)
EXTENDS Integers, Sequences, FiniteSets, TLC

(***************************************************************************)
(* Python str primitives                                                    *)
(***************************************************************************)
NoneCell == <<"None">>

DigitChars == <<"0","1","2","3","4","5","6","7","8","9">>

\* the i-th int column label of a DataFrame (not a str)
IntCol(i) == <<"int", DigitChars[i + 1]>>

IsStr(c) == c = <<>> \/ c[1] \notin {"None", "int"}

LowerChar(c) ==
    CASE c = "A" -> "a" [] c = "B" -> "b" [] c = "C" -> "c" [] c = "D" -> "d"
      [] c = "E" -> "e" [] c = "F" -> "f" [] c = "G" -> "g" [] c = "H" -> "h"
      [] c = "I" -> "i" [] c = "J" -> "j" [] c = "K" -> "k" [] c = "L" -> "l"
      [] c = "M" -> "m" [] c = "N" -> "n" [] c = "O" -> "o" [] c = "P" -> "p"
      [] c = "Q" -> "q" [] c = "R" -> "r" [] c = "S" -> "s" [] c = "T" -> "t"
      [] c = "U" -> "u" [] c = "V" -> "v" [] c = "W" -> "w" [] c = "X" -> "x"
      [] c = "Y" -> "y" [] c = "Z" -> "z" [] OTHER -> c

RECURSIVE Lower(_)
\* str.lower()
Lower(s) == IF s = <<>> THEN <<>> ELSE <<LowerChar(Head(s))>> \o Lower(Tail(s))

RECURSIVE ReplaceChar(_, _, _)
\* str.replace(old, new) for a one-character old; new is a str (possibly empty)
ReplaceChar(s, old, new) ==
    IF s = <<>> THEN <<>>
    ELSE (IF Head(s) = old THEN new ELSE <<Head(s)>>) \o ReplaceChar(Tail(s), old, new)

RECURSIVE ReplaceStr(_, _, _)
\* str.replace(old, new) for a non-empty old: leftmost, non-overlapping
ReplaceStr(s, old, new) ==
    IF Len(s) < Len(old) THEN s
    ELSE IF SubSeq(s, 1, Len(old)) = old
         THEN new \o ReplaceStr(SubSeq(s, Len(old) + 1, Len(s)), old, new)
         ELSE <<Head(s)>> \o ReplaceStr(Tail(s), old, new)

Whitespace == {" ", "\t", "\n", "\r"}

RECURSIVE LStrip(_)
LStrip(s) == IF s # <<>> /\ Head(s) \in Whitespace THEN LStrip(Tail(s)) ELSE s

RECURSIVE RStrip(_)
RStrip(s) ==
    IF s # <<>> /\ s[Len(s)] \in Whitespace THEN RStrip(SubSeq(s, 1, Len(s) - 1)) ELSE s

\* str.strip()
Strip(s) == RStrip(LStrip(s))

\* sub in s
Contains(s, sub) ==
    \E i \in 0..(Len(s) - Len(sub)) : SubSeq(s, i + 1, i + Len(sub)) = sub

\* Python truthiness of a cell value: None and "" are falsy
Truthy(v) == v # NoneCell /\ v # <<>>

\* a or b
Or(a, b) == IF Truthy(a) THEN a ELSE b

(***************************************************************************)
(* String literals of the source                                            *)
(***************************************************************************)
s_call == <<"c","a","l","l">>
s_callnumber == <<"c","a","l","l","n","u","m","b","e","r">>
s_amount == <<"a","m","o","u","n","t">>
s_distribution == <<"d","i","s","t","r","i","b","u","t","i","o","n">>
s_recallable == <<"r","e","c","a","l","l","a","b","l","e">>
s_type == <<"t","y","p","e">>
s_adjustment == <<"a","d","j","u","s","t","m","e","n","t">>
s_contribution == <<"c","o","n","t","r","i","b","u","t","i","o","n">>
s_category == <<"c","a","t","e","g","o","r","y">>
s_call_number == <<"c","a","l","l","_","n","u","m","b","e","r">>
s_call_type == <<"c","a","l","l","_","t","y","p","e">>
s_distribution_type == <<"d","i","s","t","r","i","b","u","t","i","o","n","_","t","y","p","e">>
s_adjustment_type == <<"a","d","j","u","s","t","m","e","n","t","_","t","y","p","e">>
s_date == <<"d","a","t","e">>
s_description == <<"d","e","s","c","r","i","p","t","i","o","n">>
s_contribution_adjustment == <<"c","o","n","t","r","i","b","u","t","i","o","n","_","a","d","j","u","s","t","m","e","n","t">>
s_is_contribution_adjustment == <<"i","s","_","c","o","n","t","r","i","b","u","t","i","o","n","_","a","d","j","u","s","t","m","e","n","t">>
s_call_space_number == <<"c","a","l","l"," ","n","u","m","b","e","r">>
s_adjust == <<"a","d","j","u","s","t">>
s_return == <<"r","e","t","u","r","n">>
s_income == <<"i","n","c","o","m","e">>
s_yes == <<"y","e","s">>
s_true == <<"t","r","u","e">>
s_one == <<"1">>
\* the three characters U+00E2 U+02C6 U+2019 of the literal at line 121
s_mojibake_minus == <<"U+00E2","U+02C6","U+2019">>

(***************************************************************************)
(* TableParser.classify_table                                               *)
(***************************************************************************)
\* a normalization that leaves the case of the header cell alone
ClassifyNorm_NoLower(h) ==
    ReplaceChar(ReplaceChar(ReplaceChar(h, " ", <<>>), "-", <<>>), "_", <<>>)

\* line 17: h.lower().replace(' ', '').replace('-', '').replace('_', '')
ClassifyNorm(h) ==
    ReplaceChar(ReplaceChar(ReplaceChar(Lower(h), " ", <<>>), "-", <<>>), "_", <<>>)

\* any(sub in h for h in header)
AnyContains(header, sub) == \E i \in 1..Len(header) : Contains(header[i], sub)

\* line 18
CapitalCallsPredicate(header) ==
    /\ (AnyContains(header, s_call) \/ AnyContains(header, s_callnumber))
    /\ AnyContains(header, s_amount)

\* line 20
DistributionsPredicate(header) ==
    \/ AnyContains(header, s_distribution)
    \/ AnyContains(header, s_recallable)
    \/ AnyContains(header, s_type)

\* line 22
AdjustmentsPredicate(header) ==
    \/ AnyContains(header, s_adjustment)
    \/ AnyContains(header, s_contribution)
    \/ AnyContains(header, s_category)

\* a classifier that tests the Distributions predicate first
ClassifyHeader_DistributionsFirst(header) ==
    IF DistributionsPredicate(header) THEN "distributions"
    ELSE IF CapitalCallsPredicate(header) THEN "capital_calls"
    ELSE IF AdjustmentsPredicate(header) THEN "adjustments"
    ELSE "unknown"

\* lines 18-24 on the normalized header: first match wins
ClassifyHeader(header) ==
    IF CapitalCallsPredicate(header) THEN "capital_calls"
    ELSE IF DistributionsPredicate(header) THEN "distributions"
    ELSE IF AdjustmentsPredicate(header) THEN "adjustments"
    ELSE "unknown"

\* h.lower() raises AttributeError on a cell that is not a str
ClassifyRaises(table) ==
    /\ table # <<>>
    /\ table[1] # <<>>
    /\ \E i \in 1..Len(table[1]) : ~IsStr(table[1][i])

RECURSIVE NormalizedHeader(_)
\* line 17
NormalizedHeader(cells) ==
    IF cells = <<>> THEN <<>>
    ELSE <<ClassifyNorm(Head(cells))>> \o NormalizedHeader(Tail(cells))

classify_table(table) ==
    IF table = <<>> \/ table[1] = <<>> THEN "unknown"
    ELSE ClassifyHeader(NormalizedHeader(table[1]))

(***************************************************************************)
(* TableParser.parse_table                                                  *)
(***************************************************************************)
\* line 32: h.strip().lower().replace(' ', '_').replace('-', '_')
ParseNorm(h) == ReplaceChar(ReplaceChar(Lower(Strip(h)), " ", <<"_">>), "-", <<"_">>)

\* a lookup that renames `type` to distribution_type whatever the table's type
HeaderKey_AlwaysDistributionType(h, table_type) ==
    IF h \in {s_call_number, s_call} THEN s_call_type
    ELSE IF h = s_type THEN s_distribution_type
    ELSE IF h = s_contribution_adjustment THEN s_is_contribution_adjustment
    ELSE h

\* lines 35-57: the canonical field name of a normalized header cell
HeaderKey(h, table_type) ==
    IF h \in {s_call_number, s_call} THEN s_call_type
    ELSE IF h = s_type
         THEN (IF table_type = "distributions" THEN s_distribution_type
               ELSE IF table_type = "adjustments" THEN s_adjustment_type
               ELSE h)
    ELSE IF h = s_contribution_adjustment THEN s_is_contribution_adjustment
    ELSE h

RECURSIVE HeaderMap(_, _)
\* lines 33-57
HeaderMap(header, table_type) ==
    IF header = <<>> THEN <<>>
    ELSE <<HeaderKey(ParseNorm(Head(header)), table_type)>> \o HeaderMap(Tail(header), table_type)

header_map(table, table_type) == HeaderMap(table[1], table_type)

RECURSIVE RowDictUpTo(_, _, _)
\* line 61, for the columns 1..n: the entry of a later column replaces an earlier
\* one with the same key
RowDictUpTo(hm, row, n) ==
    IF n = 0 THEN <<>>
    ELSE (hm[n] :> (IF n <= Len(row) THEN Strip(row[n]) ELSE NoneCell))
             @@ RowDictUpTo(hm, row, n - 1)

\* line 61
RowDict(hm, row) == RowDictUpTo(hm, row, Len(hm))

\* row[i].strip() raises AttributeError on a cell that is not a str
ParseRaises(table) ==
    \E r \in 2..Len(table) :
        \E i \in 1..Len(table[1]) : i <= Len(table[r]) /\ ~IsStr(table[r][i])

RECURSIVE ParseRows(_, _)
\* lines 58-62
ParseRows(hm, rows) ==
    IF rows = <<>> THEN <<>> ELSE <<RowDict(hm, Head(rows))>> \o ParseRows(hm, Tail(rows))

parse_table(table, table_type) ==
    IF table = <<>> \/ Len(table) < 2 THEN <<>>
    ELSE ParseRows(header_map(table, table_type), Tail(table))

\* dict.get(key)
Get(row, k) == IF k \in DOMAIN row THEN row[k] ELSE NoneCell

(***************************************************************************)
(* DocumentProcessor primitive parsers                                      *)
(***************************************************************************)
IsDigit(c) == \E i \in 1..10 : DigitChars[i] = c

DigitVal(c) == (CHOOSE i \in 1..10 : DigitChars[i] = c) - 1

RECURSIVE IntOf(_)
\* the value of a sequence of digits
IntOf(s) == IF s = <<>> THEN 0 ELSE 10 * IntOf(SubSeq(s, 1, Len(s) - 1)) + DigitVal(s[Len(s)])

AllDigits(s) == \A i \in 1..Len(s) : IsDigit(s[i])

\* A number is <<n, scale>>, standing for n / 10^scale with no trailing zero.
RECURSIVE Reduce(_, _)
Reduce(n, scale) ==
    IF scale > 0 /\ n % 10 = 0 THEN Reduce(n \div 10, scale - 1) ELSE <<n, scale>>

Zero == <<0, 0>>

Unsigned(s) == IF s # <<>> /\ s[1] \in {"-", "+"} THEN Tail(s) ELSE s

\* float(s) succeeds: [sign] digits [. digits] after whitespace is stripped
\* (exponents, inf, nan and digit-group underscores are outside the cell values drawn)
FloatOk(s) ==
    LET b == Unsigned(Strip(s))
        nodot == ReplaceChar(b, ".", <<>>)
    IN  /\ nodot # <<>>
        /\ AllDigits(nodot)
        /\ Len(b) - Len(nodot) <= 1

FloatOf(s) ==
    LET t == Strip(s)
        b == Unsigned(t)
        nodot == ReplaceChar(b, ".", <<>>)
        dot == IF \E i \in 1..Len(b) : b[i] = "." THEN CHOOSE i \in 1..Len(b) : b[i] = "." ELSE Len(b)
        mag == Reduce(IntOf(nodot), Len(b) - dot)
    IN  IF t # <<>> /\ t[1] = "-" THEN <<0 - mag[1], mag[2]>> ELSE mag

\* lines 118-126
parse_amount(value) ==
    IF ~Truthy(value) THEN Zero
    ELSE LET v == ReplaceStr(ReplaceChar(ReplaceChar(ReplaceChar(value, "$", <<>>),
                        ",", <<>>), " ", <<>>), s_mojibake_minus, <<"-">>)
         IN  IF FloatOk(v) THEN FloatOf(v) ELSE Zero

\* abs()
Abs(x) == IF x[1] < 0 THEN <<0 - x[1], x[2]>> ELSE x

NoDate == <<>>

SepCount(s, sep) == Cardinality({i \in 1..Len(s) : s[i] = sep})

\* the three fields of s around its two separators
Field(s, sep, k) ==
    LET p1 == CHOOSE i \in 1..Len(s) : s[i] = sep /\ \A j \in 1..(i - 1) : s[j] # sep
        p2 == CHOOSE i \in (p1 + 1)..Len(s) : s[i] = sep /\ \A j \in (p1 + 1)..(i - 1) : s[j] # sep
    IN  CASE k = 1 -> SubSeq(s, 1, p1 - 1)
          [] k = 2 -> SubSeq(s, p1 + 1, p2 - 1)
          [] OTHER -> SubSeq(s, p2 + 1, Len(s))

IsLeap(y) == (y % 4 = 0 /\ y % 100 # 0) \/ y % 400 = 0

DaysIn(y, m) ==
    IF m = 2 THEN (IF IsLeap(y) THEN 29 ELSE 28)
    ELSE IF m \in {4, 6, 9, 11} THEN 30 ELSE 31

\* %Y: four digits; %m, %d: one or two digits in range; datetime() checks the day
DateOk(y, m, d) ==
    /\ Len(y) = 4 /\ AllDigits(y) /\ IntOf(y) >= 1
    /\ Len(m) \in {1, 2} /\ AllDigits(m) /\ IntOf(m) \in 1..12
    /\ Len(d) \in {1, 2} /\ AllDigits(d) /\ IntOf(d) \in 1..31
    /\ IntOf(d) <= DaysIn(IntOf(y), IntOf(m))

\* The five formats of line 132, as <<separator, position of Y, of m, of d>>
DateFormats == << <<"-", 1, 2, 3>>, <<"-", 3, 2, 1>>, <<"/", 3, 1, 2>>, <<"/", 1, 2, 3>>, <<"/", 3, 2, 1>> >>

\* datetime.strptime(value, fmt) succeeds
StrptimeOk(value, fmt) ==
    /\ SepCount(value, fmt[1]) = 2
    /\ DateOk(Field(value, fmt[1], fmt[2]), Field(value, fmt[1], fmt[3]), Field(value, fmt[1], fmt[4]))

Strptime(value, fmt) ==
    <<IntOf(Field(value, fmt[1], fmt[2])), IntOf(Field(value, fmt[1], fmt[3])),
      IntOf(Field(value, fmt[1], fmt[4]))>>

\* lines 128-138: the first format that parses, else None
parse_date(value) ==
    IF ~Truthy(value) THEN NoDate
    ELSE IF \E f \in 1..Len(DateFormats) : StrptimeOk(value, DateFormats[f])
         THEN Strptime(value, DateFormats[CHOOSE f \in 1..Len(DateFormats) :
                          /\ StrptimeOk(value, DateFormats[f])
                          /\ \A g \in 1..(f - 1) : ~StrptimeOk(value, DateFormats[g])])
         ELSE NoDate

\* lines 140-145 (a cell is never a bool)
parse_bool(value) ==
    IF value = NoneCell THEN FALSE
    ELSE Lower(Strip(value)) \in {s_yes, s_true, s_one}

(***************************************************************************)
(* Row routing and record construction (process_document, lines 65-106)     *)
(***************************************************************************)
\* line 65
call_type(row) == Or(Get(row, s_call_space_number), Get(row, s_call_type))

\* line 66
type_col(row) == Or(Or(Get(row, s_distribution_type), Get(row, s_type)), Get(row, s_adjustment_type))

\* a cascade without the return/income clause: the table's type alone decides
Route_NoOverride(tt, row) ==
    LET ct == call_type(row)
        tc == type_col(row)
        lt == Lower(tc)
    IN  IF tt = "capital_calls" /\ Truthy(ct) THEN "capital_call"
        ELSE IF /\ tt = "distributions"
                /\ Truthy(tc)
                /\ (~Truthy(ct) \/ ct = <<>>)
                /\ ~(Contains(lt, s_adjust) \/ Contains(lt, s_recallable))
             THEN "distribution"
        ELSE IF Truthy(tc) /\ (Contains(lt, s_adjust) \/ Contains(lt, s_recallable))
             THEN "adjustment"
        ELSE "none"

\* a cascade whose Distributions clause does not look at call_type
Route_NoCallTypeTest(tt, row) ==
    LET ct == call_type(row)
        tc == type_col(row)
        lt == Lower(tc)
    IN  IF tt = "capital_calls" /\ Truthy(ct) THEN "capital_call"
        ELSE IF \/ /\ tt = "distributions"
                   /\ Truthy(tc)
                   /\ ~(Contains(lt, s_adjust) \/ Contains(lt, s_recallable))
                \/ /\ Truthy(tc)
                   /\ (Contains(lt, s_return) \/ Contains(lt, s_income))
             THEN "distribution"
        ELSE IF Truthy(tc) /\ (Contains(lt, s_adjust) \/ Contains(lt, s_recallable))
             THEN "adjustment"
        ELSE "none"

\* lines 67, 78-82, 94: the branch taken for a row (lt is type_col.lower(), which the
\* code evaluates only where type_col is truthy)
Route(tt, row) ==
    LET ct == call_type(row)
        tc == type_col(row)
        lt == Lower(tc)
    IN  IF tt = "capital_calls" /\ Truthy(ct) THEN "capital_call"
        ELSE IF \/ /\ tt = "distributions"
                   /\ Truthy(tc)
                   /\ (~Truthy(ct) \/ ct = <<>>)
                   /\ ~(Contains(lt, s_adjust) \/ Contains(lt, s_recallable))
                \/ /\ Truthy(tc)
                   /\ (Contains(lt, s_return) \/ Contains(lt, s_income))
             THEN "distribution"
        ELSE IF Truthy(tc) /\ (Contains(lt, s_adjust) \/ Contains(lt, s_recallable))
             THEN "adjustment"
        ELSE "none"

FundId == 1

\* lines 68-75, 83-91, 95-104 (created_at, a clock reading, is left out);
\* a field the record's class does not have is None / FALSE
Build(kind, row) ==
    [ kind |-> kind,
      fund_id |-> FundId,
      date |-> parse_date(Get(row, s_date)),
      type |-> IF kind = "capital_call" THEN call_type(row) ELSE type_col(row),
      amount |-> IF kind = "distribution" THEN Abs(parse_amount(Get(row, s_amount)))
                 ELSE parse_amount(Get(row, s_amount)),
      description |-> Get(row, s_description),
      is_recallable |-> kind = "distribution" /\ parse_bool(Get(row, s_recallable)),
      category |-> IF kind = "adjustment" THEN Get(row, s_category) ELSE NoneCell,
      is_contribution_adjustment |->
          kind = "adjustment" /\ parse_bool(Get(row, s_is_contribution_adjustment)) ]

\* lines 77, 93, 106
Counter(kind) ==
    CASE kind = "capital_call" -> "capital_calls"
      [] kind = "distribution" -> "distributions"
      [] kind = "adjustment" -> "adjustments"

Bump(st, kind) == [st EXCEPT ![Counter(kind)] = @ + 1]

\* line 30
InitStats == [capital_calls |-> 0, distributions |-> 0, adjustments |-> 0, pages |-> 0]

(***************************************************************************)
(* Inputs: the cells, tables and PDF files the jobs are run on              *)
(***************************************************************************)
h_CallNumber == <<"C","a","l","l"," ","N","u","m","b","e","r">>
h_call_number == <<"c","a","l","l","_","n","u","m","b","e","r">>
h_Amount == <<"A","m","o","u","n","t">>
h_Type == <<"T","y","p","e">>
h_Recallable == <<"R","e","c","a","l","l","a","b","l","e">>
h_AdjustmentType == <<"A","d","j","u","s","t","m","e","n","t"," ","T","y","p","e">>
h_Category == <<"C","a","t","e","g","o","r","y">>
v_CALL1 == <<"C","A","L","L","-","1">>
v_Return == <<"R","e","t","u","r","n"," ","o","f"," ","C","a","p","i","t","a","l">>
v_Dividend == <<"D","i","v","i","d","e","n","d">>
v_Adjustment == <<"F","e","e"," ","A","d","j","u","s","t","m","e","n","t">>
v_Fees == <<"F","e","e","s">>
v_date_iso == <<"2","0","2","3","-","0","1","-","1","5">>
v_date_feb == <<"2","0","2","3","-","0","2","-","0","1">>
v_date_us == <<"0","3","/","0","4","/","2","0","2","3">>
v_date_bad == <<"Q","1"," ","2","0","2","3">>
v_amt_100k == <<"$","1","0","0",",","0","0","0">>
v_amt_50k == <<"$","5","0",",","0","0","0">>
v_amt_neg == <<"-","2",",","5","0","0",".","5","0">>
v_amt_bad == <<"n","/","a">>
v_No == <<"N","o">>
v_Yes == <<" ","Y","e","s"," ">>
v_Q1 == <<"Q","1"," ","c","a","l","l">>

\* [call_number, date, amount, description]: two capital calls, the second with
\* an unparsable date and amount
T_Calls ==
    << <<h_call_number, s_date, s_amount, s_description>>,
       <<v_CALL1, v_date_iso, v_amt_100k, v_Q1>>,
       <<v_CALL1, v_date_bad, v_amt_bad>> >>

\* [type, date, amount, recallable]
T_TypeRecallable ==
    << <<s_type, s_date, s_amount, s_recallable>>,
       <<v_Return, v_date_feb, v_amt_50k, v_No>>,
       <<v_Dividend, v_date_us, v_amt_neg, v_Yes>> >>

T_Distributions ==
    << <<h_Type, h_Amount>>, <<v_Dividend, v_amt_neg>>, <<v_Adjustment, v_amt_50k>> >>

T_AdjustmentType ==
    << <<h_AdjustmentType, h_Category, h_Amount>>,
       <<v_Adjustment, v_Fees, v_amt_neg>>,
       <<v_Return, v_Fees, v_amt_50k>> >>

\* a capital-call table with a type column: [Call Number, Type, Amount]
T_CallsTyped ==
    << <<h_CallNumber, h_Type, h_Amount>>,
       <<v_CALL1, v_Return, v_amt_100k>>,
       <<<<>>, v_Return, v_amt_50k>> >>

T_Category == << <<h_Category, h_Amount>>, <<v_Return, v_amt_50k>> >>

\* an empty cell extracted as None
T_NoneCell == << <<h_Type, h_Amount>>, <<v_Dividend, v_amt_50k>>, <<NoneCell, v_amt_50k>> >>

\* a header row alone
T_HeaderOnly == << <<h_Type, h_Amount>> >>

JobTables ==
    { T_Calls, T_TypeRecallable, T_Distributions, T_AdjustmentType, T_Category, T_NoneCell,
      T_HeaderOnly, T_CallsTyped }

\* the rows (df.values.tolist()) of the one DataFrame camelot finds
CamelotFrame == << <<h_Type, h_Amount>>, <<v_Dividend, v_amt_50k>> >>

MaxPages == 2

MaxCols == 2

\* the number of rows of one job whose build or insert raises
MaxRowFaults == 1

SeqsUpTo(S, n) == UNION {[1..k -> S] : k \in 0..n}

\* a page carries no table or one table of JobTables; camelot finds nothing
JobPdfs ==
    { [pages |-> ps, camelot |-> <<>>] :
        ps \in SeqsUpTo({<<>>} \cup {<<tb>> : tb \in JobTables}, MaxPages) }

\* the files of at most one page in which camelot finds a DataFrame
CamelotPdfs ==
    { [pages |-> ps, camelot |-> <<CamelotFrame>>] :
        ps \in SeqsUpTo({<<>>} \cup {<<tb>> : tb \in JobTables}, 1) }

WideHeaderCells == {h_CallNumber, h_Amount, h_Type, h_Recallable, h_AdjustmentType, h_Category}

WideRowCells == {v_CALL1, v_Return, v_Adjustment, <<>>}

\* one page with one table of one data row: every header and every (possibly
\* ragged) row of up to MaxCols cells
WidePdfs ==
    { [pages |-> << << <<h, r>> >> >>, camelot |-> <<>>] :
        h \in SeqsUpTo(WideHeaderCells, MaxCols), r \in SeqsUpTo(WideRowCells, MaxCols) }

\* the files two concurrent tasks are run on
ConcPdfs ==
    { [pages |-> << <<tb>> >>, camelot |-> <<>>] : tb \in {T_Calls, T_Category, T_NoneCell} }

(***************************************************************************)
(* State                                                                    *)
(***************************************************************************)
Tasks == {1, 2}

VARIABLES
    faulty,       \* whether the external calls of this run (pdfplumber, camelot, the ORM) may raise
    pdf,          \* the file at file_path: its pages' tables and camelot's DataFrames
    document,     \* the Document row of document_id
    persisted,    \* the committed transaction rows, each tagged with the job that added it
    pc,           \* each task's position
    stats,        \* process_document: stats
    all_tables,   \* process_document: all_tables
    table_idx,    \* the position of `for table in all_tables`
    table_type,   \* process_document: table_type
    parsed_rows,  \* process_document: parsed_rows
    row_idx,      \* the position of `for row in parsed_rows`
    session,      \* the records db.add()ed to the job's session and not yet committed
    result,       \* the value process_document returned
    exc,          \* the exception in flight, or the one the task raised
    loaded,       \* process_document_task: whether the query at line 21 found the Document
    queued,       \* history: every record the job db.add()ed
    skipped,      \* history: the rows whose build raised, as <<table_idx, row_idx>>
    last_row,     \* history: the last row the loop body ran on
    lastWriter,   \* history: the task whose status update was committed last
    turn          \* the task the worker pool ran last, and the parity of the steps it has run

vars ==
    <<faulty, pdf, document, persisted, pc, stats, all_tables, table_idx, table_type, parsed_rows,
      row_idx, session, result, exc, loaded, queued, skipped, last_row, lastWriter, turn>>

\* the worker pool runs one step of task t
Tick(t) == <<t, 1 - turn[2]>>

NoDocument == [parsing_status |-> "missing", error_message |-> "None"]

PendingDocument == [parsing_status |-> "pending", error_message |-> "None"]

NoResult == [status |-> "none", error |-> "None", stats |-> InitStats]

NoRow == [header |-> <<>>, table_type |-> "none", row |-> <<>>, kind |-> "none", raised |-> FALSE, before |-> InitStats]

\* the state when the submitted tasks have entered process_document (line 30)
InitOf(files, documents, submitted, faults) ==
    /\ faulty = faults
    /\ pdf \in files
    /\ document \in documents
    /\ persisted = <<>>
    /\ pc = [t \in Tasks |-> IF t \in submitted THEN "open" ELSE "idle"]
    /\ stats = [t \in Tasks |-> InitStats]
    /\ all_tables = [t \in Tasks |-> <<>>]
    /\ table_idx = [t \in Tasks |-> 1]
    /\ table_type = [t \in Tasks |-> "none"]
    /\ parsed_rows = [t \in Tasks |-> <<>>]
    /\ row_idx = [t \in Tasks |-> 1]
    /\ session = [t \in Tasks |-> <<>>]
    /\ result = [t \in Tasks |-> NoResult]
    /\ exc = [t \in Tasks |-> "None"]
    /\ loaded = [t \in Tasks |-> FALSE]
    /\ queued = [t \in Tasks |-> <<>>]
    /\ skipped = [t \in Tasks |-> {}]
    /\ last_row = [t \in Tasks |-> NoRow]
    /\ lastWriter = 0
    /\ turn = <<0, 0>>

\* one task; the Document exists, or (for the files of CamelotPdfs) may be missing;
\* on the files of WidePdfs no external call raises
Init ==
    \/ InitOf(JobPdfs, {PendingDocument}, {1}, TRUE)
    \/ InitOf(CamelotPdfs, {PendingDocument, NoDocument}, {1}, TRUE)
    \/ InitOf(WidePdfs, {PendingDocument}, {1}, FALSE)

\* two tasks submitted for the same file and Document
InitConc == InitOf(ConcPdfs, {PendingDocument}, Tasks, TRUE)

(***************************************************************************)
(* process_document                                                         *)
(***************************************************************************)
RECURSIVE Flatten(_)
\* all_tables.extend(tables) over the pages
Flatten(pages) == IF pages = <<>> THEN <<>> ELSE Head(pages) \o Flatten(Tail(pages))

\* lines 52-54: the DataFrame's int column labels become the table's row 0
CamelotTable(rows) == << [c \in 1..Len(rows[1]) |-> IntCol(c - 1)] >> \o rows

\* line 58
KeepTable(tb) == tb # <<>> /\ Len(tb) > 1

\* the outcomes of an external call: it returns, or (in a faulty run) raises
Raises == IF faulty THEN BOOLEAN ELSE {FALSE}

\* lines 112-114: an exception caught by the outer handler
Caught(t, e) ==
    /\ exc' = [exc EXCEPT ![t] = e]
    /\ pc' = [pc EXCEPT ![t] = "except"]

\* lines 33-34
OpenPdf(t) ==
    /\ pc[t] = "open"
    /\ \E raises \in Raises :
        IF raises
        THEN Caught(t, "OpenError") /\ UNCHANGED stats
        ELSE /\ stats' = [stats EXCEPT ![t].pages = Len(pdf.pages)]
             /\ pc' = [pc EXCEPT ![t] = "extract"]
             /\ UNCHANGED exc
    /\ turn' = Tick(t)
    /\ UNCHANGED <<faulty, pdf, document, persisted, all_tables, table_idx, table_type, parsed_rows,
                   row_idx, session, result, loaded, queued, skipped, last_row, lastWriter>>

\* lines 35-48
ExtractTables(t) ==
    /\ pc[t] = "extract"
    /\ \E raises \in Raises :
        IF raises /\ pdf.pages # <<>>
        THEN Caught(t, "ExtractError") /\ UNCHANGED all_tables
        ELSE /\ all_tables' = [all_tables EXCEPT ![t] = Flatten(pdf.pages)]
             /\ pc' = [pc EXCEPT ![t] = "camelot"]
             /\ UNCHANGED exc
    /\ turn' = Tick(t)
    /\ UNCHANGED <<faulty, pdf, document, persisted, stats, table_idx, table_type, parsed_rows,
                   row_idx, session, result, loaded, queued, skipped, last_row, lastWriter>>

\* lines 49-58: the camelot tables are appended unless camelot raises; then the filter
ReadCamelot(t) ==
    /\ pc[t] = "camelot"
    /\ \E raises \in Raises :
        all_tables' = [all_tables EXCEPT ![t] =
            SelectSeq(IF raises THEN @
                      ELSE @ \o [i \in 1..Len(pdf.camelot) |-> CamelotTable(pdf.camelot[i])],
                      KeepTable)]
    /\ pc' = [pc EXCEPT ![t] = "tables"]
    /\ turn' = Tick(t)
    /\ UNCHANGED <<faulty, pdf, document, persisted, stats, table_idx, table_type, parsed_rows,
                   row_idx, session, result, exc, loaded, queued, skipped, last_row, lastWriter>>

\* lines 60-62: the next table is classified and parsed, or the loop is over
NextTable(t) ==
    /\ pc[t] = "tables"
    /\ IF table_idx[t] > Len(all_tables[t])
       THEN /\ pc' = [pc EXCEPT ![t] = "commit"]
            /\ UNCHANGED <<exc, table_type, parsed_rows, row_idx>>
       ELSE LET tb == all_tables[t][table_idx[t]] IN
            IF ClassifyRaises(tb)
            THEN Caught(t, "AttributeError: lower") /\ UNCHANGED <<table_type, parsed_rows, row_idx>>
            ELSE /\ table_type' = [table_type EXCEPT ![t] = classify_table(tb)]
                 /\ IF ParseRaises(tb)
                    THEN Caught(t, "AttributeError: strip") /\ UNCHANGED <<parsed_rows, row_idx>>
                    ELSE /\ parsed_rows' = [parsed_rows EXCEPT ![t] =
                                               parse_table(tb, classify_table(tb))]
                         /\ row_idx' = [row_idx EXCEPT ![t] = 1]
                         /\ pc' = [pc EXCEPT ![t] = "rows"]
                         /\ UNCHANGED exc
    /\ turn' = Tick(t)
    /\ UNCHANGED <<faulty, pdf, document, persisted, stats, all_tables, table_idx, session, result,
                   loaded, queued, skipped, last_row, lastWriter>>

\* `break` in place of `continue`: the rest of the table is skipped
RowAfterError_Break(n, len) == len + 1

\* lines 107-109: the row after one whose build raised
RowAfterError(n, len) == n + 1

\* lines 63-109: one pass of the row loop; building or inserting the record may raise
ProcessRow(t) ==
    /\ pc[t] = "rows"
    /\ LET row == parsed_rows[t][row_idx[t]]
           kind == Route(table_type[t], row)
       IN  \E raises \in Raises :
            /\ raises => kind # "none" /\ Cardinality(skipped[t]) < MaxRowFaults
            /\ last_row' = [last_row EXCEPT ![t] =
                   [header |-> all_tables[t][table_idx[t]][1],
                    table_type |-> table_type[t], row |-> row, kind |-> kind,
                    raised |-> raises, before |-> stats[t]]]
            /\ IF kind = "none" \/ raises
               THEN UNCHANGED <<session, queued, stats>>
               ELSE /\ session' = [session EXCEPT ![t] = Append(@, Build(kind, row))]
                    /\ queued' = [queued EXCEPT ![t] = Append(@, Build(kind, row))]
                    /\ stats' = [stats EXCEPT ![t] = Bump(@, kind)]
            /\ skipped' = [skipped EXCEPT ![t] =
                   IF raises THEN @ \cup {<<table_idx[t], row_idx[t]>>} ELSE @]
            /\ LET next == IF raises THEN RowAfterError(row_idx[t], Len(parsed_rows[t]))
                           ELSE row_idx[t] + 1
               IN  IF next <= Len(parsed_rows[t])
                   THEN /\ row_idx' = [row_idx EXCEPT ![t] = next]
                        /\ UNCHANGED <<pc, table_idx>>
                   ELSE /\ table_idx' = [table_idx EXCEPT ![t] = @ + 1]
                        /\ pc' = [pc EXCEPT ![t] = "tables"]
                        /\ UNCHANGED row_idx
    /\ turn' = Tick(t)
    /\ UNCHANGED <<faulty, pdf, document, persisted, all_tables, table_type, parsed_rows, result, exc,
                   loaded, lastWriter>>

\* the rows of the job's session, as they are stored
Stored(t, records) == [i \in 1..Len(records) |-> [job |-> t, rec |-> records[i]]]

\* line 110: what db.commit() stores
CommitRows(t) == Stored(t, session[t])

\* a handler that flushes the pending records instead of discarding them
RollbackRows_Flush(t) == Stored(t, session[t])

\* line 113: what db.rollback() stores
RollbackRows(t) == <<>>

\* lines 110-111 and 116
Commit(t) ==
    /\ pc[t] = "commit"
    /\ \E raises \in Raises :
        IF raises
        THEN Caught(t, "CommitError") /\ UNCHANGED <<persisted, session, result>>
        ELSE /\ persisted' = persisted \o CommitRows(t)
             /\ session' = [session EXCEPT ![t] = <<>>]
             /\ result' = [result EXCEPT ![t] =
                    [status |-> "completed", error |-> "None", stats |-> stats[t]]]
             /\ pc' = [pc EXCEPT ![t] = "query"]
             /\ UNCHANGED exc
    /\ turn' = Tick(t)
    /\ UNCHANGED <<faulty, pdf, document, stats, all_tables, table_idx, table_type, parsed_rows,
                   row_idx, loaded, queued, skipped, last_row, lastWriter>>

\* a failed result that reports fresh counters
FailedResult_ZeroCounts(e, st) == [status |-> "failed", error |-> e, stats |-> InitStats]

\* line 114: the value returned from the outer handler
FailedResult(e, st) == [status |-> "failed", error |-> e, stats |-> st]

\* lines 112-116: rollback, return the failed result, close; db.rollback() may raise,
\* and that exception leaves process_document
Rollback(t) ==
    /\ pc[t] = "except"
    /\ \E raises \in Raises :
        IF raises
        THEN /\ exc' = [exc EXCEPT ![t] = "RollbackError"]
             /\ pc' = [pc EXCEPT ![t] = "handler"]
             /\ UNCHANGED <<result, persisted>>
        ELSE /\ persisted' = persisted \o RollbackRows(t)
             /\ result' = [result EXCEPT ![t] = FailedResult(exc[t], stats[t])]
             /\ exc' = [exc EXCEPT ![t] = "None"]
             /\ pc' = [pc EXCEPT ![t] = "query"]
    /\ session' = [session EXCEPT ![t] = <<>>]
    /\ turn' = Tick(t)
    /\ UNCHANGED <<faulty, pdf, document, stats, all_tables, table_idx, table_type, parsed_rows,
                   row_idx, loaded, queued, skipped, last_row, lastWriter>>

(***************************************************************************)
(* process_document_task                                                    *)
(***************************************************************************)
\* line 21
QueryDocument(t) ==
    /\ pc[t] = "query"
    /\ \E raises \in Raises :
        IF raises
        THEN /\ exc' = [exc EXCEPT ![t] = "QueryError"]
             /\ pc' = [pc EXCEPT ![t] = "handler"]
             /\ UNCHANGED loaded
        ELSE /\ loaded' = [loaded EXCEPT ![t] = document # NoDocument]
             /\ pc' = [pc EXCEPT ![t] = "update"]
             /\ UNCHANGED exc
    /\ turn' = Tick(t)
    /\ UNCHANGED <<faulty, pdf, document, persisted, stats, all_tables, table_idx, table_type,
                   parsed_rows, row_idx, session, result, queued, skipped, last_row, lastWriter>>

\* an update that sets the status and never the message
StatusWrite_StatusOnly(doc, res) ==
    [parsing_status |-> res.status, error_message |-> doc.error_message]

\* an update that leaves a Document alone once it holds a terminal status
StatusWrite_FirstWins(doc, res) ==
    IF doc.parsing_status \in {"completed", "failed"} THEN doc
    ELSE [ parsing_status |-> res.status,
           error_message |-> IF res.status = "failed" THEN res.error ELSE doc.error_message ]

\* lines 23-25: the Document after the update of a task whose job returned res
StatusWrite(doc, res) ==
    [ parsing_status |-> res.status,
      error_message |-> IF res.status = "failed" THEN res.error ELSE doc.error_message ]

\* lines 22-27
UpdateStatus(t) ==
    /\ pc[t] = "update"
    /\ \E raises \in Raises :
        IF loaded[t] /\ raises
        THEN /\ exc' = [exc EXCEPT ![t] = "StatusCommitError"]
             /\ pc' = [pc EXCEPT ![t] = "handler"]
             /\ UNCHANGED <<document, lastWriter>>
        ELSE /\ IF loaded[t]
                THEN /\ document' = StatusWrite(document, result[t])
                     /\ lastWriter' = t
                ELSE UNCHANGED <<document, lastWriter>>
             /\ pc' = [pc EXCEPT ![t] = "returned"]
             /\ UNCHANGED exc
    /\ turn' = Tick(t)
    /\ UNCHANGED <<faulty, pdf, persisted, stats, all_tables, table_idx, table_type, parsed_rows,
                   row_idx, session, result, loaded, queued, skipped, last_row>>

\* lines 32-33: the Document after the handler's update for exception e
HandlerWrite(doc, e) == [parsing_status |-> "failed", error_message |-> e]

\* lines 28-35: the handler's own query or commit may raise; either way the task raises
HandleTaskError(t) ==
    /\ pc[t] = "handler"
    /\ \E raises \in Raises :
        IF raises \/ document = NoDocument
        THEN /\ exc' = [exc EXCEPT ![t] = IF raises THEN "HandlerError" ELSE @]
             /\ UNCHANGED <<document, lastWriter>>
        ELSE /\ document' = HandlerWrite(document, exc[t])
             /\ lastWriter' = t
             /\ UNCHANGED exc
    /\ pc' = [pc EXCEPT ![t] = "raised"]
    /\ turn' = Tick(t)
    /\ UNCHANGED <<faulty, pdf, persisted, stats, all_tables, table_idx, table_type, parsed_rows,
                   row_idx, session, result, loaded, queued, skipped, last_row>>

Step(t) ==
    \/ OpenPdf(t)
    \/ ExtractTables(t)
    \/ ReadCamelot(t)
    \/ NextTable(t)
    \/ ProcessRow(t)
    \/ Commit(t)
    \/ Rollback(t)
    \/ QueryDocument(t)
    \/ UpdateStatus(t)
    \/ HandleTaskError(t)

Next == \E t \in Tasks : Step(t)

Spec == Init /\ [][Next]_vars

SpecConc == InitConc /\ [][Next]_vars

\* a step of task t, by the guard and the one effect every action of Step(t) shares:
\* some action of Step(t) is enabled at every position but idle, returned and raised
Run(t) ==
    /\ pc[t] \notin {"idle", "returned", "raised"}
    /\ turn' = Tick(t)

\* every submitted Celery task is run by a worker until it returns or raises
SpecConcFair == SpecConc /\ \A t \in Tasks : WF_turn(Run(t))

(***************************************************************************)
(* Vocabulary of the properties                                             *)
(***************************************************************************)
Kinds == {"capital_call", "distribution", "adjustment"}

Terminated(t) == pc[t] \in {"returned", "raised"}

\* the exceptions the outer handler of process_document catches
JobErrors ==
    {"OpenError", "ExtractError", "AttributeError: lower", "AttributeError: strip", "CommitError"}

\* the exceptions that steps after the row loop has started can still raise
LaterErrors == {"AttributeError: lower", "AttributeError: strip", "CommitError"}

\* the exceptions that reach the task's handler
TaskErrors == {"RollbackError", "QueryError", "StatusCommitError"}

\* the rows the loop body has run on so far, as <<table, row>> positions
DoneRows(t) ==
    { p \in (1..Len(all_tables[t])) \X (1..3) :
        /\ p[2] <= Len(all_tables[t][p[1]]) - 1
        /\ \/ p[1] < table_idx[t]
           \/ p[1] = table_idx[t] /\ pc[t] = "rows" /\ p[2] < row_idx[t] }

RECURSIVE RouteAll(_, _)
RouteAll(tt, rows) ==
    IF rows = <<>> THEN <<>> ELSE <<Route(tt, Head(rows))>> \o RouteAll(tt, Tail(rows))

\* the branches of the rows of a table, from its header and cells
TableKinds(tb) ==
    LET tt == classify_table(tb)
    IN  RouteAll(tt, parse_table(tb, tt))

RECURSIVE KindsOfTables(_)
KindsOfTables(tables) ==
    IF tables = <<>> THEN <<>> ELSE <<TableKinds(Head(tables))>> \o KindsOfTables(Tail(tables))

\* the tables the loop has entered
Entered(t) == SubSeq(all_tables[t], 1, IF pc[t] = "rows" THEN table_idx[t] ELSE table_idx[t] - 1)

\* per kind, the number of rows run so far that took that branch and whose build did
\* not raise
ExpectedCounts(t) ==
    LET done == DoneRows(t) \ skipped[t]
        kinds == KindsOfTables(Entered(t))
    IN  [kind \in Kinds |-> Cardinality({p \in done : kinds[p[1]][p[2]] = kind})]

\* stats changes in the row loop alone, and every job leaves the loop for the commit
\* or for the handler: the comparison is made there
CountsAsExpected(t) ==
    pc[t] \in {"commit", "except"} =>
        LET expected == ExpectedCounts(t)
        IN  \A kind \in Kinds : stats[t][Counter(kind)] = expected[kind]

NumberOf(records, kind) == Cardinality({i \in 1..Len(records) : records[i].kind = kind})

\* the stored rows of job t
JobRows(t) == SelectSeq(persisted, LAMBDA r : r.job = t)

\* the header with every cell lowercased and its spaces, dashes and underscores removed
Squeezed(header) ==
    [i \in 1..Len(header) |->
        ReplaceChar(ReplaceChar(ReplaceChar(Lower(header[i]), " ", <<>>), "-", <<>>), "_", <<>>)]

\* a cell of the squeezed header contains sub
HeaderHas(sq, sub) == \E i \in 1..Len(sq) : Contains(sq[i], sub)

\* the value of the first of distribution_type, type, adjustment_type that is non-empty
TypeValue(row) ==
    IF Truthy(Get(row, s_distribution_type)) THEN Get(row, s_distribution_type)
    ELSE IF Truthy(Get(row, s_type)) THEN Get(row, s_type)
    ELSE Get(row, s_adjustment_type)

TypeValueHas(row, sub) ==
    LET tv == TypeValue(row)
    IN  Truthy(tv) /\ Contains(Lower(tv), sub)

CallTypeValue(row) ==
    IF Truthy(Get(row, s_call_space_number)) THEN Get(row, s_call_space_number)
    ELSE Get(row, s_call_type)

(***************************************************************************)
(* C1                                                                       *)
(***************************************************************************)
\* C1: A row whose build or insert raises is skipped and leaves every counter as it
\* was; every other row run so far, in the same table and in later tables, has
\* contributed exactly its own count, as if the failing row had not failed; the
\* failing row does not send the job to the outer handler, so a job with skipped rows
\* reaches commit and reports "completed" with those counts unless a later
\* classification, normalization or commit raises.
C1_RowFailureIsolated ==
    \A t \in Tasks :
        /\ CountsAsExpected(t)
        /\ last_row[t].raised => stats[t] = last_row[t].before
        /\ Len(queued[t]) =
               stats[t].capital_calls + stats[t].distributions + stats[t].adjustments
        /\ (skipped[t] # {} /\ pc[t] = "except") => exc[t] \in LaterErrors
        /\ (skipped[t] # {} /\ result[t].status = "failed") => result[t].error \in LaterErrors
        /\ result[t].status = "completed" =>
               /\ result[t].stats = stats[t]
               /\ table_idx[t] = Len(all_tables[t]) + 1

\* the first row of T_Calls raised, the second was built, and so were the rows of the
\* next table; the job completed
C1_Witness ==
    /\ result[1].status = "completed"
    /\ skipped[1] = {<<1, 1>>}
    /\ Len(all_tables[1]) = 2
    /\ all_tables[1][1] = T_Calls
    /\ result[1].stats.capital_calls = 1
    /\ result[1].stats.distributions + result[1].stats.adjustments = 2

C3_DocumentAlwaysTerminal ==
    (Terminated(1) /\ document # NoDocument) =>
        /\ document.parsing_status \in {"completed", "failed"}
        /\ document.parsing_status =
               (IF result[1].status = "none" THEN "failed" ELSE result[1].status)
        /\ document.parsing_status = "failed" =>
               document.error_message \in {result[1].error, exc[1]}

\* C3, amended: when the task returns, the existing Document holds the result's
\* status, completed or failed, and on failed the result's message; when the task
\* raises, the Document is either unchanged (the handler's own update raised) or
\* failed with the message of the exception that reached the handler, also when the
\* job itself had completed.  A job that cannot open the file returns failed with all
\* counts and pages 0.
C3_DocumentAfterTask ==
    /\ (pc[1] = "returned" /\ document # NoDocument) =>
           /\ result[1].status \in {"completed", "failed"}
           /\ document.parsing_status = result[1].status
           /\ document.error_message =
                  (IF result[1].status = "failed" THEN result[1].error ELSE "None")
    /\ (pc[1] = "raised" /\ document # NoDocument) =>
           \/ exc[1] = "HandlerError" /\ document = PendingDocument
           \/ /\ exc[1] \in TaskErrors
              /\ document = [parsing_status |-> "failed", error_message |-> exc[1]]
    /\ result[1].error = "OpenError" =>
           result[1].status = "failed" /\ result[1].stats = InitStats

\* the file could not be opened: the task returned, the Document is failed with the message
C3_Witness ==
    /\ pc[1] = "returned"
    /\ result[1] = [status |-> "failed", error |-> "OpenError", stats |-> InitStats]
    /\ document = [parsing_status |-> "failed", error_message |-> "OpenError"]

(***************************************************************************)
(* C4                                                                       *)
(***************************************************************************)
\* C4: the type of a table is decided by its header row alone, by the first predicate
\* that holds in the order CapitalCalls, Distributions, Adjustments, Unknown; a header
\* with a "call" cell and an "amount" cell that also has a "distribution", "recallable"
\* or "type" cell is CapitalCalls.
C4_ClassifyPriority ==
    \A t \in Tasks :
        pc[t] = "rows" =>
            LET h == Squeezed(all_tables[t][table_idx[t]][1])
                calls == HeaderHas(h, s_call) /\ HeaderHas(h, s_amount)
                dists == \/ HeaderHas(h, s_distribution)
                         \/ HeaderHas(h, s_recallable)
                         \/ HeaderHas(h, s_type)
                adjs == \/ HeaderHas(h, s_adjustment)
                        \/ HeaderHas(h, s_contribution)
                        \/ HeaderHas(h, s_category)
            IN  /\ (calls /\ dists) => table_type[t] = "capital_calls"
                /\ table_type[t] =
                       (IF calls THEN "capital_calls"
                        ELSE IF dists THEN "distributions"
                        ELSE IF adjs THEN "adjustments"
                        ELSE "unknown")

\* the header [type, date, amount, recallable]: "recallable" holds "call", so both
\* predicates hold
C4_Witness ==
    /\ pc[1] = "rows"
    /\ table_type[1] = "capital_calls"
    /\ LET h == Squeezed(all_tables[1][table_idx[1]][1])
       IN  /\ HeaderHas(h, s_call)
           /\ HeaderHas(h, s_amount)
           /\ HeaderHas(h, s_type)
           /\ HeaderHas(h, s_recallable)

(***************************************************************************)
(* C5                                                                       *)
(***************************************************************************)
\* C5 as stated: a row whose type value contains "return" takes the Distribution
\* branch, whatever the type of its table, and (when its build does not raise) adds 1
\* to the distributions counter.
C5_ReturnIsDistribution ==
    \A t \in Tasks :
        LET e == last_row[t]
        IN  (e # NoRow /\ TypeValueHas(e.row, s_return)) =>
                /\ e.kind = "distribution"
                /\ ~e.raised => stats[t] = Bump(e.before, "distribution")

\* C5, amended: a row whose type value contains "return" takes the Distribution branch
\* and is counted as a distribution unless its table is CapitalCalls and the row has a
\* non-empty call_type, in which case it is a capital call.  The clause overrides a
\* CapitalCalls classification only: a table classified Adjustments or Unknown never
\* has a type value.
C5_ReturnIsDistributionUnlessCall ==
    \A t \in Tasks :
        LET e == last_row[t]
        IN  (e # NoRow /\ TypeValueHas(e.row, s_return)) =>
                /\ e.table_type \in {"capital_calls", "distributions"}
                /\ e.kind = (IF e.table_type = "capital_calls" /\ Truthy(CallTypeValue(e.row))
                             THEN "capital_call" ELSE "distribution")
                /\ stats[t] = (IF e.raised THEN e.before ELSE Bump(e.before, e.kind))
                /\ ~e.raised => queued[t][Len(queued[t])].kind = e.kind

\* in one CapitalCalls table a "Return of Capital" row with a call number was counted
\* as a capital call and the next one, with an empty call number, as a distribution
C5_Witness ==
    LET e == last_row[1]
    IN  /\ e.table_type = "capital_calls"
        /\ TypeValueHas(e.row, s_return)
        /\ ~Truthy(CallTypeValue(e.row))
        /\ e.kind = "distribution"
        /\ ~e.raised
        /\ stats[1].distributions = e.before.distributions + 1
        /\ stats[1].capital_calls = 1
        /\ Len(queued[1]) = 2
        /\ queued[1][1].kind = "capital_call"
        /\ queued[1][2].kind = "distribution"

(***************************************************************************)
(* C6                                                                       *)
(***************************************************************************)
\* the cascade of the claim
Cascade(tt, row) ==
    IF tt = "capital_calls" /\ Truthy(CallTypeValue(row)) THEN "capital_call"
    ELSE IF \/ /\ tt = "distributions"
               /\ Truthy(TypeValue(row))
               /\ ~Truthy(CallTypeValue(row))
               /\ ~TypeValueHas(row, s_adjust)
               /\ ~TypeValueHas(row, s_recallable)
            \/ TypeValueHas(row, s_return)
            \/ TypeValueHas(row, s_income)
         THEN "distribution"
    ELSE IF TypeValueHas(row, s_adjust) \/ TypeValueHas(row, s_recallable) THEN "adjustment"
    ELSE "none"

\* C6: the job runs every row through the cascade and creates at most one record for
\* it: the branch taken is the one the cascade names; a routed row adds one record of
\* its kind and 1 to that kind's counter alone, also when its date parses to null or
\* its amount to 0; a row that is not routed adds no record, changes no counter and
\* raises nothing.  (A row whose build or insert raises is the case of C1: no record,
\* no counter.)
C6_CascadeAndCounters ==
    \A t \in Tasks :
        LET e == last_row[t]
        IN  /\ Len(queued[t]) =
                   stats[t].capital_calls + stats[t].distributions + stats[t].adjustments
            /\ \A kind \in Kinds : NumberOf(queued[t], kind) = stats[t][Counter(kind)]
            /\ e # NoRow =>
                   /\ e.kind = Cascade(e.table_type, e.row)
                   /\ IF e.kind = "none" \/ e.raised
                      THEN stats[t] = e.before
                      ELSE /\ stats[t] = Bump(e.before, e.kind)
                           /\ queued[t][Len(queued[t])].kind = e.kind
                           /\ queued[t][Len(queued[t])].fund_id = FundId

\* a capital call whose date parsed to null and whose amount parsed to 0 was counted
C6_Witness ==
    LET e == last_row[1]
    IN  /\ e.kind = "capital_call"
        /\ ~e.raised
        /\ stats[1] = Bump(e.before, "capital_call")
        /\ Truthy(Get(e.row, s_date))
        /\ queued[1][Len(queued[1])].date = NoDate
        /\ queued[1][Len(queued[1])].amount = Zero

(***************************************************************************)
(* C7                                                                       *)
(***************************************************************************)
\* C7: records are stored by the one commit after the last table, all or none: a
\* completed job has stored exactly the records it queued, as many per kind as the
\* counts it returned; any other job (still running, failed, also on the commit
\* itself, or left by an exception of rollback) has stored none, and a failed job
\* returns the counts accumulated before the failure.
C7_AllOrNothing ==
    \A t \in Tasks :
        /\ IF result[t].status = "completed"
           THEN /\ JobRows(t) = Stored(t, queued[t])
                /\ \A kind \in Kinds :
                       NumberOf(queued[t], kind) = result[t].stats[Counter(kind)]
                /\ table_idx[t] = Len(all_tables[t]) + 1
           ELSE JobRows(t) = <<>>
        /\ result[t].status = "failed" =>
               /\ session[t] = <<>>
               /\ result[t].stats = stats[t]
               /\ \A kind \in Kinds :
                      NumberOf(queued[t], kind) = result[t].stats[Counter(kind)]
        /\ pc[t] \in {"open", "extract", "camelot", "tables", "rows", "commit"} =>
               session[t] = queued[t]

\* the commit raised with two records queued: none is stored, the counts are returned
C7_Witness ==
    /\ result[1].status = "failed"
    /\ result[1].error = "CommitError"
    /\ Len(queued[1]) = 2
    /\ result[1].stats.capital_calls + result[1].stats.distributions
           + result[1].stats.adjustments = 2
    /\ persisted = <<>>

(***************************************************************************)
(* C8                                                                       *)
(***************************************************************************)
\* what holds of two tasks on one document in every state
ConcurrentJobs ==
    /\ \A t \in Tasks :
           JobRows(t) = (IF result[t].status = "completed" THEN Stored(t, queued[t]) ELSE <<>>)
    /\ Len(persisted) = Len(JobRows(1)) + Len(JobRows(2))
    /\ lastWriter = 0 => document = PendingDocument
    /\ \A t \in Tasks :
           lastWriter = t =>
               IF pc[t] = "returned"
               THEN /\ document.parsing_status = result[t].status
                    /\ result[t].status = "failed" => document.error_message = result[t].error
               ELSE /\ pc[t] = "raised"
                    /\ document = HandlerWrite(document, exc[t])

\* a commit appends to what is stored and nothing else changes it
StoredOnlyGrows ==
    /\ Len(persisted') >= Len(persisted)
    /\ SubSeq(persisted', 1, Len(persisted)) = persisted

\* C8: two tasks on the same document are not excluded from one another: under every
\* interleaving both reach a terminal state; every job that completes stores its own
\* records next to those of the other job and no stored record is ever removed; the
\* Document holds the status of the task whose update was committed last (and its
\* message, when that task failed).
C8_LastWriterWins ==
    /\ [] ConcurrentJobs
    /\ [][StoredOnlyGrows]_vars
    /\ <>(\A t \in Tasks : Terminated(t))

\* both tasks have terminated, the Document is failed, and the other job completed
\* and its records are stored
C8_Witness ==
    /\ \A t \in Tasks : Terminated(t)
    /\ document.parsing_status = "failed"
    /\ \E t \in Tasks :
           /\ lastWriter # t
           /\ lastWriter # 0
           /\ result[t].status = "completed"
           /\ JobRows(t) # <<>>
           /\ JobRows(t) = persisted

(***************************************************************************)
(* C9                                                                       *)
(***************************************************************************)
TypeKeys == {s_distribution_type, s_type, s_adjustment_type}

\* C9: a table classified Adjustments or Unknown yields no record: none of its rows
\* has one of the keys distribution_type, type, adjustment_type, so the type value is
\* absent and no branch is taken; every Adjustment record comes from a table
\* classified CapitalCalls or Distributions.
C9_NoRecordFromAdjustmentsTable ==
    \A t \in Tasks :
        LET e == last_row[t]
        IN  /\ (pc[t] = "rows" /\ table_type[t] \in {"adjustments", "unknown"}) =>
                   \A r \in 1..Len(parsed_rows[t]) : DOMAIN parsed_rows[t][r] \cap TypeKeys = {}
            /\ (e # NoRow /\ e.table_type \in {"adjustments", "unknown"}) =>
                   /\ ~Truthy(TypeValue(e.row))
                   /\ e.kind = "none"
                   /\ stats[t] = e.before
            /\ (e # NoRow /\ e.kind = "adjustment") =>
                   e.table_type \in {"capital_calls", "distributions"}

\* a row of an Adjustments table that holds "Return of Capital" yielded no record
C9_Witness ==
    LET e == last_row[1]
    IN  /\ e.table_type = "adjustments"
        /\ \E k \in DOMAIN e.row : Truthy(e.row[k]) /\ Contains(Lower(e.row[k]), s_return)
        /\ e.kind = "none"
        /\ result[1].status = "completed"
        /\ queued[1] = <<>>

(***************************************************************************)
(* C10                                                                      *)
(***************************************************************************)
Keywords == {s_return, s_income, s_adjust, s_recallable}

\* C10: a table whose header has a "recallable" cell and an "amount" cell is
\* CapitalCalls; its `type` column keeps the key type; a row of it with no call_type
\* whose type value contains none of return, income, adjust, recallable yields no
\* record and changes no counter, and does not fail the job.
C10_RecallableAmountIsCapitalCalls ==
    \A t \in Tasks :
        LET e == last_row[t]
            sq == Squeezed(e.header)
        IN  (e # NoRow /\ HeaderHas(sq, s_recallable) /\ HeaderHas(sq, s_amount)) =>
                /\ e.table_type = "capital_calls"
                /\ s_distribution_type \notin DOMAIN e.row
                /\ (\E i \in 1..Len(e.header) : Lower(Strip(e.header[i])) = s_type) =>
                       s_type \in DOMAIN e.row
                /\ (~Truthy(CallTypeValue(e.row))
                        /\ \A w \in Keywords : ~TypeValueHas(e.row, w)) =>
                       /\ e.kind = "none"
                       /\ ~e.raised
                       /\ stats[t] = e.before
                       /\ pc[t] = "except" => exc[t] \in LaterErrors
                       /\ result[t].status = "failed" => result[t].error \in LaterErrors

\* the "Dividend" row of [type, date, amount, recallable] yielded no record and the job
\* completed
C10_Witness ==
    LET e == last_row[1]
    IN  /\ e.header = <<s_type, s_date, s_amount, s_recallable>>
        /\ e.table_type = "capital_calls"
        /\ Get(e.row, s_type) = v_Dividend
        /\ e.kind = "none"
        /\ stats[1] = e.before
        /\ result[1].status = "completed"

=============================================================================
